---- MODULE Spec2Model ----
(***************************************************************************)
(* Model of kullback_rs (src/lib.rs): the periodic Index-of-Coincidence    *)
(* scan `analyze`, its transposition buffer (`transpose4`), the two        *)
(* coincidence counters (`fast_ioc`, `slow_ioc`) and the spike statistic   *)
(* computed by `plot`.                                                     *)
(*                                                                         *)
(* Numbers.  The program computes scores in f32.  The model keeps every    *)
(* score as an exact reduced fraction <<num, den>>; f32 rounding is not    *)
(* modelled.  A zero divisor gives <<num, 0>> (the IEEE NaN / infinity).   *)
(*                                                                         *)
(* Decoder.  hexdec / b64.decode are external crates.  `stream` is the     *)
(* sequence of chars the decode step yields for the caller's text; a call  *)
(* with tag HEX or BASE64 may instead fail to decode (`malformed`).        *)
(***************************************************************************)
EXTENDS Integers, Sequences, FiniteSets, TLC

\* ---------------------------------------------------------------- bounds
MaxLen == 8            \* longest generated stream
MaxRange == 6          \* largest `range` argument a caller passes

\* ------------------------------------------------------ program constants
MinLen == 4            \* lib.rs:57   data.len() < 4
ByteRange == 256       \* lib.rs:158  [0usize; 256]
AsciiLimit == 128      \* lib.rs:48   input.is_ascii()

Symbols == {0, 200}    \* '\0' (also the buffer's fill value) and a non-ASCII char
WorkedExample == <<0,1,1,0,2,3,3,0,1,2,0,1,3,3,0,2,3,1>>
Formats == {"UTF8", "HEX", "BASE64", "???"}

BoundedStreams == UNION {[1..n -> Symbols] : n \in 0..MaxLen}
Streams == BoundedStreams \cup {WorkedExample}

\* --------------------------------------------------------- f32 arithmetic
RECURSIVE GCD(_, _)
GCD(a, b) == IF b = 0 THEN a ELSE GCD(b, a % b)

f32_reduce(n, d) ==
    IF d = 0 THEN <<n, 0>>
    ELSE LET g == GCD(n, d) IN <<n \div g, d \div g>>

\* sum += x
f32_add(x, y) ==
    IF x[2] = 0 \/ y[2] = 0 THEN <<0, 0>>
    ELSE f32_reduce(x[1] * y[2] + y[1] * x[2], x[2] * y[2])

\* x / (k as f32)
f32_div(x, k) == f32_reduce(x[1], x[2] * k)

div_ceil(a, b) == (a + b - 1) \div b

\* ------------------------------------------------------------- transpose4
\* output[((i*chunk_size)%(chunk_size*n))+(i/n)] = *d, for i = from .. len-1
RECURSIVE transpose4_from(_, _, _, _)
transpose4_from(data, output, n, i) ==
    IF i >= Len(data) THEN output
    ELSE LET chunk_size == div_ceil(Len(data), n)
             at == ((i * chunk_size) % (chunk_size * n)) + (i \div n)
         IN transpose4_from(data, [output EXCEPT ![at + 1] = data[i + 1]], n, i + 1)

transpose4(data, output, n) == transpose4_from(data, output, n, 0)

\* ------------------------------------------------------------------- ioc
\* data.iter().for_each(|x| counts[*x as usize] += 1)
RECURSIVE frequency_count(_, _, _)
frequency_count(data, counts, k) ==
    IF k > Len(data) THEN counts
    ELSE frequency_count(data, [counts EXCEPT ![data[k]] = @ + 1], k + 1)

\* sum of x*(x-1) over the counts at `keys`
RECURSIVE pair_sum(_, _)
pair_sum(counts, keys) ==
    IF keys = {} THEN 0
    ELSE LET c == CHOOSE c \in keys : TRUE
         IN counts[c] * (counts[c] - 1) + pair_sum(counts, keys \ {c})

\* counts.into_iter().filter_map(|x| (x!=0).then(|| x*(x-1))).sum() / (l*(l-1.0))
fast_ioc(data) ==
    LET counts == frequency_count(data, [c \in 0..(ByteRange - 1) |-> 0], 1)
        l == Len(data)
    IN f32_reduce(pair_sum(counts, {c \in 0..(ByteRange - 1) : counts[c] # 0}),
                  l * (l - 1))

\* counts.entry(x).and_modify(|x| *x += 1).or_insert(1);
\* counts.into_values().map(|x| x*(x-1)).sum() / (l*(l-1.0))
slow_ioc(data) ==
    LET keys == {data[k] : k \in 1..Len(data)}
        counts == [c \in keys |-> Cardinality({k \in 1..Len(data) : data[k] = c})]
        l == Len(data)
    IN f32_reduce(pair_sum(counts, keys), l * (l - 1))

\* ------------------------------------------------------------ scan loop
\* for (j, x) in transpositions[..t_len].chunks_exact(chunk_size).enumerate():
\*     fixed = &x[..chunk_size-((j >= cap) as usize)]
\* mutant: the padding slot of a short column is not stripped
fixed_slice_untrimmed(transpositions, chunk_size, cap, j) ==
    SubSeq(transpositions, j * chunk_size + 1, j * chunk_size + chunk_size)

fixed_slice(transpositions, chunk_size, cap, j) ==
    SubSeq(transpositions, j * chunk_size + 1,
           j * chunk_size + chunk_size - (IF j >= cap THEN 1 ELSE 0))

ioc_of(is_bytes, fixed) == IF is_bytes THEN fast_ioc(fixed) ELSE slow_ioc(fixed)

\* sum += if is_bytes {fast_ioc(fixed)} else {slow_ioc(fixed)}, chunks j..
RECURSIVE column_sum(_, _, _, _, _, _, _)
column_sum(transpositions, chunk_size, cap, is_bytes, nchunks, j, sum) ==
    IF j >= nchunks THEN sum
    ELSE column_sum(transpositions, chunk_size, cap, is_bytes, nchunks, j + 1,
                    f32_add(sum, ioc_of(is_bytes,
                                        fixed_slice(transpositions, chunk_size, cap, j))))

\* for i in (cache.len()+1)..range { ... cache.push(sum / i as f32) }
\* `counted` collects <<i, j, fixed>> for every slice handed to a counter.
RECURSIVE period_loop(_, _, _, _, _, _, _)
period_loop(data, is_bytes, cache, transpositions, counted, i, range) ==
    IF i >= range THEN [cache |-> cache, counted |-> counted]
    ELSE LET chunk_size == div_ceil(Len(data), i)
             t_len == chunk_size * i
             filled == transpose4(data, transpositions, i)
             cap == IF (Len(data) % i) # 0 THEN Len(data) % i ELSE i
             nchunks == t_len \div chunk_size
             sum == column_sum(filled, chunk_size, cap, is_bytes, nchunks, 0, <<0, 1>>)
         IN period_loop(data, is_bytes, Append(cache, f32_div(sum, i)), filled,
                        counted \cup {<<i, j, fixed_slice(filled, chunk_size, cap, j)>> :
                                         j \in 0..(nchunks - 1)},
                        i + 1, range)

\* ------------------------------------------------------------------ plot
RECURSIVE LCMDen(_, _)
LCMDen(iocs, k) ==
    IF k > Len(iocs) THEN 1
    ELSE LET r == LCMDen(iocs, k + 1) IN (iocs[k][2] \div GCD(iocs[k][2], r)) * r

RECURSIVE SumSeq(_, _)
SumSeq(xs, k) == IF k > Len(xs) THEN 0 ELSE xs[k] + SumSeq(xs, k + 1)

RECURSIVE GCDSeq(_, _)
GCDSeq(xs, k) ==
    IF k > Len(xs) THEN 0
    ELSE GCD(IF xs[k] < 0 THEN -xs[k] ELSE xs[k], GCDSeq(xs, k + 1))

\* x - mean for every score, as integers on one common positive scale:
\* with D the common denominator and n = iocs.len(), (x - mean) * n * D,
\* then divided by the gcd of all of them.
deviations(iocs) ==
    LET n == Len(iocs)
        D == LCMDen(iocs, 1)
        a == [k \in 1..n |-> iocs[k][1] * (D \div iocs[k][2])]
        S == SumSeq(a, 1)
        e == [k \in 1..n |-> n * a[k] - S]
        g == GCDSeq(e, 1)
    IN IF g = 0 THEN e ELSE [k \in 1..n |-> e[k] \div g]

\* ((x-mean)/stdev > 1.5), stdev = sqrt(sum((mean-x)^2) / n).
\* On the common scale: stdev^2 * n = sq, so for stdev > 0 the test is
\* x > mean and 4*n*(x-mean)^2 > 9*sq.  For stdev = 0 the quotient is
\* +infinity when x > mean (greater than 1.5) and NaN or -infinity otherwise
\* (every comparison false).
\* mutant: the threshold test written as x - mean >= 1.5 * stdev
is_spike_or_equal(dev, k) ==
    LET n == Len(dev)
        sq == SumSeq([m \in 1..n |-> dev[m] * dev[m]], 1)
    IN dev[k] >= 0 /\ 4 * n * dev[k] * dev[k] >= 9 * sq

is_spike(dev, k) ==
    LET n == Len(dev)
        sq == SumSeq([m \in 1..n |-> dev[m] * dev[m]], 1)
    IN IF sq = 0 THEN dev[k] > 0
       ELSE dev[k] > 0 /\ 4 * n * dev[k] * dev[k] > 9 * sq

find_spikes(iocs) ==
    IF \E k \in 1..Len(iocs) : iocs[k][2] = 0 THEN {}
    ELSE LET dev == deviations(iocs)
         IN {k - 1 : k \in {m \in 1..Len(iocs) : is_spike(dev, m)}}

\* plot(canvas, iocs): min/max unwrap panics on an empty curve; the
\* statistics are computed before the canvas is acquired.
plot(canvasOk, iocs) ==
    IF iocs = <<>>
    THEN [outcome |-> "panic", iocs |-> iocs, spikes |-> {}]
    ELSE IF ~canvasOk
    THEN [outcome |-> "err_canvas", iocs |-> iocs, spikes |-> find_spikes(iocs)]
    ELSE [outcome |-> "ok", iocs |-> iocs, spikes |-> find_spikes(iocs)]

\* --------------------------------------------------------------- decode
\* match fmt { "UTF8" => (input.is_ascii(), chars), "HEX" | "BASE64" =>
\* (true, decoded bytes as chars) or the decode error, _ => Err }
decode(fmt, input, malformed) ==
    IF fmt = "UTF8"
    THEN [outcome |-> "ok",
          is_bytes |-> \A k \in 1..Len(input) : input[k] < AsciiLimit,
          data |-> input]
    ELSE IF fmt \in {"HEX", "BASE64"}
    THEN IF malformed
         THEN [outcome |-> "err_decode", is_bytes |-> TRUE, data |-> <<>>]
         ELSE [outcome |-> "ok", is_bytes |-> TRUE, data |-> input]
    ELSE [outcome |-> "err_encoding", is_bytes |-> FALSE, data |-> <<>>]

\* -------------------------------------------------------------- analyze
NoCall == [outcome |-> "none", path |-> "none", returned |-> <<>>,
           plotCalled |-> FALSE, plotted |-> <<>>, spikes |-> {},
           counted |-> {}, strategy |-> "none"]

Failed(outcome, path) == [NoCall EXCEPT !.outcome = outcome, !.path = path]

\* mutant: the cached branch returns the truncated curve it plotted
cached_path_returns_plotted(canvasOk, range, cache, wraps) ==
    IF range = 0 /\ ~wraps
    THEN Failed("panic", "cached")
    ELSE LET cached == IF range = 0 THEN cache ELSE SubSeq(cache, 1, range - 1)
             p == plot(canvasOk, cached)
         IN IF p.outcome = "panic"
            THEN [Failed("panic", "cached") EXCEPT !.plotCalled = TRUE]
            ELSE [NoCall EXCEPT !.outcome = "ok", !.path = "cached",
                                !.returned = cached, !.plotCalled = TRUE,
                                !.plotted = cached, !.spikes = p.spikes]

\* mutant: the cached branch plots the whole cache (take(range-1) forgotten)
cached_path_plots_all(canvasOk, range, cache, wraps) ==
    LET p == plot(canvasOk, cache)
    IN IF p.outcome = "panic"
       THEN [Failed("panic", "cached") EXCEPT !.plotCalled = TRUE]
       ELSE [NoCall EXCEPT !.outcome = "ok", !.path = "cached",
                           !.returned = cache, !.plotCalled = TRUE,
                           !.plotted = cache, !.spikes = p.spikes]

\* if range <= cache.len() { cached = cache.clone().take(range-1); plot(canvas,cached);
\* return Ok(cache) }.  The Result of plot is dropped; a panic in plot is not.
\* `wraps`: range-1 on range = 0 wraps in a build without overflow checks
\* (take(usize::MAX) keeps everything) and panics in a build with them.
cached_path(canvasOk, range, cache, wraps) ==
    IF range = 0 /\ ~wraps
    THEN Failed("panic", "cached")
    ELSE LET cached == IF range = 0 THEN cache ELSE SubSeq(cache, 1, range - 1)
             p == plot(canvasOk, cached)
         IN IF p.outcome = "panic"
            THEN [Failed("panic", "cached") EXCEPT !.plotCalled = TRUE]
            ELSE [NoCall EXCEPT !.outcome = "ok", !.path = "cached",
                                !.returned = cache, !.plotCalled = TRUE,
                                !.plotted = cached, !.spikes = p.spikes]

\* if data.len() < 4 {return Err(..)}
too_short(data) == Len(data) < MinLen

\* mutant: off by one, range >= data.len()/2
range_too_large_or_equal(range, data) == range >= Len(data) \div 2

\* mutant: the halving forgotten, range > data.len()
range_too_large_whole(range, data) == range > Len(data)

\* if range > data.len()/2 {return Err(..)}
range_too_large(range, data) == range > Len(data) \div 2

\* vec!['\u{0}'; n]
RECURSIVE zeroed(_)
zeroed(n) == IF n = 0 THEN <<>> ELSE Append(zeroed(n - 1), 0)

\* let mut transpositions = vec!['\u{0}'; data.len()+range]; the loop; plot(canvas,cache)
extend_path(canvasOk, data, is_bytes, range, cache) ==
    LET transpositions == zeroed(Len(data) + range)
        s == period_loop(data, is_bytes, cache, transpositions, {},
                         Len(cache) + 1, range)
        p == plot(canvasOk, s.cache)
    IN [outcome |-> p.outcome, path |-> "extend",
        returned |-> IF p.outcome = "ok" THEN p.iocs ELSE <<>>,
        plotCalled |-> TRUE, plotted |-> s.cache, spikes |-> p.spikes,
        counted |-> s.counted,
        strategy |-> IF s.counted = {} THEN "none"
                     ELSE IF is_bytes THEN "fast" ELSE "slow"]

analyze(canvasOk, input, range, fmt, cache, malformed, wraps) ==
    IF range <= Len(cache)
    THEN cached_path(canvasOk, range, cache, wraps)
    ELSE LET d == decode(fmt, input, malformed)
         IN IF d.outcome # "ok" THEN Failed(d.outcome, "extend")
            ELSE IF too_short(d.data) THEN Failed("err_short", "extend")
            ELSE IF range_too_large(range, d.data) THEN Failed("err_range", "extend")
            ELSE extend_path(canvasOk, d.data, d.is_bytes, range, cache)

\* ----------------------------------------------------------------- state
VARIABLES stream,       \* the symbol stream the decode step yields
          cache,        \* the score cache the caller holds
          fresh_range,  \* range of the single empty-cache call that returned `cache`, else 0
          pc,           \* "idle": no call in progress; "returned": analyze has just returned
          last          \* the latest call: its arguments and what it did

vars == <<stream, cache, fresh_range, pc, last>>

NoLast == [range |-> 0, supplied |-> <<>>, first |-> 0, call |-> NoCall]

Init ==
    /\ stream \in Streams
    /\ cache = <<>>
    /\ fresh_range = 0
    /\ pc = "idle"
    /\ last = NoLast

\* One whole call of analyze.  `cache: Vec<f32>` is passed by value: the
\* caller hands over either the cache it holds or an empty one.
Analyze(range, fmt, malformed, canvasOk, wraps, useHeld) ==
    LET supplied == IF useHeld THEN cache ELSE <<>>
    IN /\ pc = "idle"
       /\ last' = [range |-> range, supplied |-> supplied,
                   first |-> IF useHeld THEN fresh_range ELSE 0,
                   call |-> analyze(canvasOk, stream, range, fmt, supplied,
                                    malformed, wraps)]
       /\ pc' = "returned"
       /\ UNCHANGED <<stream, cache, fresh_range>>

\* The caller takes the Result: on Ok it keeps the returned cache for the
\* next call, on an error or a panic the cache it held is all it has.
Keep ==
    /\ pc = "returned"
    /\ cache' = IF last.call.outcome = "ok" THEN last.call.returned ELSE cache
    /\ fresh_range' = IF last.call.outcome = "ok"
                      THEN (IF last.supplied = <<>> THEN last.range ELSE 0)
                      ELSE fresh_range
    /\ pc' = "idle"
    /\ last' = NoLast
    /\ UNCHANGED stream

\* `malformed` only matters to the two decoding tags, `wraps` only to range = 0.
Next ==
    \/ \E range \in 0..MaxRange, fmt \in Formats, canvasOk \in BOOLEAN, useHeld \in BOOLEAN :
        \E malformed \in (IF fmt \in {"HEX", "BASE64"} THEN BOOLEAN ELSE {FALSE}),
           wraps \in (IF range = 0 THEN BOOLEAN ELSE {TRUE}) :
            Analyze(range, fmt, malformed, canvasOk, wraps, useHeld)
    \/ Keep

Spec == Init /\ [][Next]_vars

\* ====================================================== properties
Returned == pc = "returned"
Decoded == last.call.outcome \notin {"err_encoding", "err_decode"}
Max(a, b) == IF a >= b THEN a ELSE b
IsPrefix(a, b) == Len(a) <= Len(b) /\ SubSeq(b, 1, Len(a)) = a
RatEq(x, y) == x[1] * y[2] = y[1] * x[2]

\* the symbols at stream indices congruent to j mod p (indices from 0)
StrideColumn(s, p, j) ==
    [k \in 1..((Len(s) - j + p - 1) \div p) |-> s[j + (k - 1) * p + 1]]

\* Sum_c count_c*(count_c - 1) is the number of ordered pairs of distinct
\* positions that hold the same symbol
CoincidentPairs(col) ==
    Cardinality({ab \in (1..Len(col)) \X (1..Len(col)) :
                    ab[1] # ab[2] /\ col[ab[1]] = col[ab[2]]})

RefIoc(col) == f32_reduce(CoincidentPairs(col), Len(col) * (Len(col) - 1))

RECURSIVE RefSum(_, _, _)
RefSum(s, p, j) ==
    IF j >= p THEN <<0, 1>>
    ELSE f32_add(RefIoc(StrideColumn(s, p, j)), RefSum(s, p, j + 1))

RefScore(s, p) == f32_div(RefSum(s, p, 0), p)

\* one call with an empty cache, a good canvas and a well-formed input
SingleCall(range) == analyze(TRUE, stream, range, "UTF8", <<>>, FALSE, TRUE)

PeriodsCounted == {t[1] : t \in last.call.counted}

\* ------------------------------------------------------------------- C1
\* C1: for every stream of length >= 4 and all p1 < p2 <= len/2, the call
\* with max_period p1 and an empty cache returns a cache, and the call with
\* max_period p2 given that cache returns the same scores as one call with
\* max_period p2 and an empty cache.
C1_Incrementality ==
    /\ (Returned /\ Len(stream) >= MinLen /\ last.supplied = <<>>
          /\ 1 <= last.range /\ last.range < Len(stream) \div 2
          /\ Decoded /\ last.call.outcome # "err_canvas")
        => last.call.outcome = "ok"
    /\ (Returned /\ Len(stream) >= MinLen /\ last.first > 0
          /\ last.first < last.range /\ last.range <= Len(stream) \div 2
          /\ Decoded /\ last.call.outcome # "err_canvas")
        => (last.call.outcome = "ok"
            /\ last.call.returned = SingleCall(last.range).returned)

\* Once a first call has returned a cache, the chained call agrees with the
\* single call (the second conjunct of C1 alone).
ChainedEqualsSingle ==
    (Returned /\ Len(stream) >= MinLen /\ last.first > 0
       /\ last.first < last.range /\ last.range <= Len(stream) \div 2
       /\ Decoded /\ last.call.outcome # "err_canvas")
    => (last.call.outcome = "ok"
        /\ last.call.returned = SingleCall(last.range).returned)

ChainedWitness ==
    /\ Returned /\ last.first = 2 /\ last.range = 5
    /\ last.call.outcome = "ok" /\ Len(last.call.returned) = 4

\* ------------------------------------------------------------------- C2
\* C2: the cache is append-only: every successful call returns a cache that
\* has the supplied cache as a prefix, whatever max_period is (larger or
\* smaller), and computes no period the supplied cache already holds.
C2_AppendOnly ==
    (Returned /\ last.call.outcome = "ok")
    => /\ IsPrefix(last.supplied, last.call.returned)
       /\ Len(last.call.returned) >= Len(last.supplied)
       /\ \A p \in PeriodsCounted : p > Len(last.supplied)

\* a call with a smaller max_period than the cache holds, and one that extends
C2_Witness_Smaller ==
    /\ Returned /\ last.call.outcome = "ok"
    /\ last.range >= 2 /\ Len(last.supplied) >= last.range + 1
    /\ last.call.returned = last.supplied

C2_Witness_Extended ==
    /\ Returned /\ last.call.outcome = "ok"
    /\ last.supplied # <<>> /\ Len(last.call.returned) > Len(last.supplied)

\* ------------------------------------------------------------------- C3
\* C3 (as claimed): when the supplied cache holds at least max_period - 1
\* entries the call returns exactly its first max_period - 1 entries, and
\* every successful call returns at most max_period - 1 entries.
C3_ReturnsTruncated ==
    /\ (Returned /\ last.call.outcome = "ok" /\ Len(last.supplied) >= last.range - 1)
        => last.call.returned = SubSeq(last.supplied, 1, last.range - 1)
    /\ (Returned /\ last.call.outcome = "ok")
        => Len(last.call.returned) <= last.range - 1

\* C3 (amended): when the supplied cache holds at least max_period - 1
\* entries, a successful call returns the whole supplied cache unchanged and
\* computes nothing; only the curve handed to plot is cut to the first
\* max_period - 1 entries (max_period >= 1).  A successful call returns
\* max(len(supplied cache), max_period - 1) entries.
C3_ReturnsWholeCache ==
    /\ (Returned /\ last.call.outcome = "ok" /\ Len(last.supplied) >= last.range - 1)
        => /\ last.call.returned = last.supplied
           /\ last.call.counted = {}
           /\ last.range >= 1
               => last.call.plotted = SubSeq(last.supplied, 1, last.range - 1)
    /\ (Returned /\ last.call.outcome = "ok")
        => Len(last.call.returned) = Max(Len(last.supplied), last.range - 1)

C3_Witness ==
    /\ Returned /\ last.call.outcome = "ok" /\ last.call.path = "cached"
    /\ last.range = 2 /\ Len(last.supplied) = 4
    /\ Len(last.call.plotted) = 1 /\ Len(last.call.returned) = 4

\* ------------------------------------------------------------------- C4
\* C4: for a stream of length >= 4, max_period m <= len/2 and an empty cache,
\* analyze returns exactly m - 1 scores, entry p-1 being the average over the
\* p columns of period p of Sum_c count_c*(count_c-1) / (n*(n-1)); for the
\* worked example the period-3 columns score 6/30, 4/30 and 12/30 and the
\* period-3 entry is 11/45.
C4_ScoresMatchFormula ==
    (Returned /\ Len(stream) >= MinLen /\ last.range <= Len(stream) \div 2
       /\ last.supplied = <<>> /\ Decoded /\ last.call.outcome # "err_canvas")
    => /\ last.call.outcome = "ok"
       /\ Len(last.call.returned) = last.range - 1
       /\ \A p \in 1..(last.range - 1) :
              RatEq(last.call.returned[p], RefScore(stream, p))
       /\ (stream = WorkedExample /\ last.range >= 4)
           => /\ last.call.returned[3] = <<11, 45>>
              /\ \A t \in last.call.counted :
                    t[1] = 3 => RatEq(fast_ioc(t[3]),
                                      CASE t[2] = 0 -> <<6, 30>>
                                        [] t[2] = 1 -> <<4, 30>>
                                        [] OTHER -> <<12, 30>>)

\* The same for max_period >= 2, where the call returns.
ScoresMatchFormulaFromTwo ==
    (Returned /\ Len(stream) >= MinLen /\ last.range <= Len(stream) \div 2
       /\ last.range >= 2
       /\ last.supplied = <<>> /\ Decoded /\ last.call.outcome # "err_canvas")
    => /\ last.call.outcome = "ok"
       /\ Len(last.call.returned) = last.range - 1
       /\ \A p \in 1..(last.range - 1) :
              RatEq(last.call.returned[p], RefScore(stream, p))
       /\ (stream = WorkedExample /\ last.range >= 4)
           => /\ last.call.returned[3] = <<11, 45>>
              /\ \A t \in last.call.counted :
                    t[1] = 3 => RatEq(fast_ioc(t[3]),
                                      CASE t[2] = 0 -> <<6, 30>>
                                        [] t[2] = 1 -> <<4, 30>>
                                        [] OTHER -> <<12, 30>>)

WorkedExampleWitness ==
    /\ Returned /\ stream = WorkedExample /\ last.supplied = <<>>
    /\ last.range = 4 /\ last.call.outcome = "ok"

\* ------------------------------------------------------------------- C5
\* C5: a stream with fewer than 4 symbols is rejected with the too-short
\* error for any max_period (0 and 1 included) and any supplied cache, before
\* any score is computed, any cache entry is added or anything is plotted.
C5_ShortAlwaysRejected ==
    (Returned /\ Len(stream) < MinLen /\ Decoded)
    => /\ last.call.outcome = "err_short"
       /\ ~last.call.plotCalled
       /\ last.call.counted = {}
       /\ last.call.returned = <<>>

\* With max_period above the supplied cache's length the check is reached.
ShortRejectedPastCache ==
    (Returned /\ Len(stream) < MinLen /\ Decoded /\ last.range > Len(last.supplied))
    => /\ last.call.outcome = "err_short"
       /\ ~last.call.plotCalled
       /\ last.call.counted = {}
       /\ last.call.returned = <<>>

\* ------------------------------------------------------------------- C6
\* C6: for a stream of length >= 4 and an empty cache, analyze returns the
\* range-too-large error exactly when max_period > len/2, and a rejected
\* call has computed no cache entry.
C6_RangeRejection ==
    (Returned /\ Len(stream) >= MinLen /\ last.supplied = <<>> /\ Decoded)
    => /\ (last.call.outcome = "err_range") <=> (last.range > Len(stream) \div 2)
       /\ last.call.outcome = "err_range"
           => /\ last.call.counted = {}
              /\ last.call.returned = <<>>
              /\ ~last.call.plotCalled

\* max_period = len/2 + 1 is rejected ...
C6_Witness ==
    /\ Returned /\ Len(stream) >= MinLen /\ last.supplied = <<>>
    /\ last.range = Len(stream) \div 2 + 1 /\ last.call.outcome = "err_range"

\* ... and max_period = len/2 is accepted
C6_Witness_Accepted ==
    /\ Returned /\ Len(stream) >= 6 /\ last.supplied = <<>>
    /\ last.range = Len(stream) \div 2 /\ last.call.outcome = "ok"

\* ------------------------------------------------------------------- C7
AllEqual(iocs) == \A a, b \in 1..Len(iocs) : RatEq(iocs[a], iocs[b])

\* C7: when every score of the curve handed to plot is the same value (a
\* single score included), no index is a spike: a zero standard deviation
\* never makes an index a spike.
C7_NoSpikeOnFlatCurve ==
    (Returned /\ last.call.plotCalled /\ last.call.plotted # <<>>
       /\ AllEqual(last.call.plotted))
    => last.call.spikes = {}

C7_Witness ==
    /\ Returned /\ last.call.plotCalled /\ Len(last.call.plotted) >= 3
    /\ AllEqual(last.call.plotted) /\ last.call.outcome = "ok"

\* the detector does flag something on a curve that is not flat
SpikeWitness == Returned /\ last.call.spikes # {}

\* ------------------------------------------------------------------- C8
\* C8: every slice handed to a coincidence counter for period p, column j is
\* exactly stream[j], stream[j+p], stream[j+2p], ... ; every column 0..p-1
\* of a processed period is counted once and the slice lengths of a period
\* sum to len(stream), although the buffer is reused without being cleared.
C8_SlicesAreColumns ==
    Returned
    => /\ \A t \in last.call.counted : t[3] = StrideColumn(stream, t[1], t[2])
       /\ \A p \in PeriodsCounted :
             LET cols == {t \in last.call.counted : t[1] = p}
             IN /\ {t[2] : t \in cols} = 0..(p - 1)
                /\ Cardinality(cols) = p
                /\ SumSeq([j \in 1..p |->
                            Len((CHOOSE t \in cols : t[2] = j - 1)[3])], 1)
                   = Len(stream)

\* a short column of a later period of the same call: its padding cell lies
\* where an earlier period wrote
C8_Witness ==
    /\ Returned /\ last.call.outcome = "ok"
    /\ \E t \in last.call.counted :
          /\ Len(stream) % t[1] # 0 /\ t[2] >= Len(stream) % t[1]
          /\ (t[2] + 1) * div_ceil(Len(stream), t[1]) <= Len(stream)
          /\ \E u \in last.call.counted : u[1] < t[1]

\* ------------------------------------------------------------------- C9
\* C9: no coincidence counter is called on fewer than 2 symbols: every slice
\* counted for every processed period has length n >= 2, so n*(n-1) # 0.
C9_ColumnsHaveTwo ==
    Returned => \A t \in last.call.counted :
                    Len(t[3]) >= 2 /\ Len(t[3]) * (Len(t[3]) - 1) # 0

C9_Witness ==
    /\ Returned /\ last.call.outcome = "ok"
    /\ \E t \in last.call.counted : Len(t[3]) = 2

\* ------------------------------------------------------------------ C10
\* C10: plot is only ever called with a non-empty curve: on the cached path
\* and on the extension path, for every max_period (1 included), the curve
\* handed to plot has at least one entry.
C10_PlotNeverEmpty ==
    (Returned /\ last.call.plotCalled) => Len(last.call.plotted) >= 1

\* plot is handed an empty curve only by max_period <= 1
EmptyPlotOnlyBelowTwo ==
    (Returned /\ last.call.plotCalled /\ last.call.plotted = <<>>) => last.range <= 1

====
